---- MODULE Spec2Model ----
(***************************************************************************)
(* Model of python-backend/main.py: the startup handshake that sets        *)
(* GLOBAL_MCP_SESSION_ID, call_mcp_tool, get_financial_insight and the     *)
(* /process_agent_request handler.                                         *)
(*                                                                         *)
(* Texts (HTTP bodies, generator replies) are sequences of one-character   *)
(* strings.  The backtick is written as the token BT.                      *)
(***************************************************************************)
EXTENDS Integers, Sequences, FiniteSets, TLC

\* ------------------------------------------------------------------------
\* Bounds of the model
\* ------------------------------------------------------------------------
\* number of requests the service receives in one run
NumReqs == 2
\* longest run of whitespace put around a fenced generator reply
MaxWs == 1

None == "None"
BT == "bt"
Reqs == 1 .. NumReqs

\* ------------------------------------------------------------------------
\* Configuration (main.py lines 15-18, 121-137)
\* ------------------------------------------------------------------------
\* values os.urandom may give BACKEND_MCP_SESSION_ID at import time
SessionIds == {"backend_session_a", "backend_session_b"}

INTENT_CONFIG ==
  [ analyze_spending |->
      [ tool_name |-> "fetch_bank_transactions",
        prompt_template |-> "SPENDING_ANALYSIS_PROMPT",
        message |-> "Here's a summary of your spending habits:" ],
    fetch_net_worth |->
      [ tool_name |-> "fetch_net_worth",
        prompt_template |-> "NET_WORTH_PROMPT",
        message |-> "Here's your net worth summary:" ],
    fetch_credit_report |->
      [ tool_name |-> "fetch_credit_report",
        prompt_template |-> "CREDIT_REPORT_PROMPT",
        message |-> "Here's your credit report summary:" ] ]

SupportedIntents == DOMAIN INTENT_CONFIG
\* intent strings a caller may send: the three keys and a tool name that is
\* not a key
Intents == SupportedIntents \cup {"fetch_bank_transactions"}

\* ------------------------------------------------------------------------
\* Python string operations used by get_financial_insight
\* ------------------------------------------------------------------------
\* characters str.strip() removes
PyWs == {" ", "\n"}
FenceLead == <<BT, BT, BT, "j", "s", "o", "n">>
FenceTail == <<BT, BT, BT>>

\* s.startswith(p)
StartsWith(s, p) == Len(s) >= Len(p) /\ SubSeq(s, 1, Len(p)) = p

\* s[7:-3] for a text of at least seven characters
Slice7m3(s) == SubSeq(s, 8, Len(s) - 3)

RECURSIVE LStrip(_)
LStrip(s) == IF s # <<>> /\ Head(s) \in PyWs THEN LStrip(Tail(s)) ELSE s

RECURSIVE RStrip(_)
RStrip(s) ==
  IF s # <<>> /\ s[Len(s)] \in PyWs THEN RStrip(SubSeq(s, 1, Len(s) - 1)) ELSE s

\* s.strip()
Strip(s) == RStrip(LStrip(s))

\* lines 84-86: the text handed to json.loads
StripFence(text) ==
  IF StartsWith(text, FenceLead) THEN Strip(Slice7m3(text)) ELSE text

\* ------------------------------------------------------------------------
\* json.loads on the character set of the model.  A value is a pair
\* <<kind, payload>>: <<"num", n>>, <<"str", chars>>, <<"null", <<>>>>,
\* <<"arr", values>>, <<"obj", members>> with members a sequence of
\* <<key, value>> pairs.
\* ------------------------------------------------------------------------
JsonWs == {" ", "\n"}
Digits == {"1", "2"}
DigitVal(c) == IF c = "1" THEN 1 ELSE 2
ParseFail == [ok |-> FALSE, val |-> <<"none", <<>>>>, next |-> 0]
ParseOk(v, n) == [ok |-> TRUE, val |-> v, next |-> n]

RECURSIVE SkipWs(_, _)
SkipWs(s, i) == IF i <= Len(s) /\ s[i] \in JsonWs THEN SkipWs(s, i + 1) ELSE i

RECURSIVE ParseNumber(_, _, _)
ParseNumber(s, i, acc) ==
  IF i <= Len(s) /\ s[i] \in Digits
    THEN ParseNumber(s, i + 1, 10 * acc + DigitVal(s[i]))
    ELSE ParseOk(<<"num", acc>>, i)

\* s[i-1] is the opening quote; a raw newline inside a string is rejected
RECURSIVE ParseString(_, _, _)
ParseString(s, i, acc) ==
  IF i > Len(s) \/ s[i] = "\n" THEN ParseFail
  ELSE IF s[i] = "\"" THEN ParseOk(<<"str", acc>>, i + 1)
  ELSE ParseString(s, i + 1, Append(acc, s[i]))

\* dict assignment: a repeated key keeps its place and takes the new value
PutMember(members, key, val) ==
  IF \E k \in 1 .. Len(members) : members[k][1] = key
    THEN [k \in 1 .. Len(members) |->
            IF members[k][1] = key THEN <<key, val>> ELSE members[k]]
    ELSE Append(members, <<key, val>>)

RECURSIVE ParseValue(_, _)
RECURSIVE ParseElements(_, _, _)
RECURSIVE ParseMembers(_, _, _)

\* i is the position of the first element
ParseElements(s, i, acc) ==
  LET v == ParseValue(s, i) IN
  IF ~v.ok THEN ParseFail
  ELSE LET m == SkipWs(s, v.next) IN
       IF m > Len(s) THEN ParseFail
       ELSE IF s[m] = "]" THEN ParseOk(<<"arr", Append(acc, v.val)>>, m + 1)
       ELSE IF s[m] = "," THEN ParseElements(s, SkipWs(s, m + 1), Append(acc, v.val))
       ELSE ParseFail

\* i is the position where a member's key must start
ParseMembers(s, i, acc) ==
  IF i > Len(s) \/ s[i] # "\"" THEN ParseFail
  ELSE LET key == ParseString(s, i + 1, <<>>) IN
       IF ~key.ok THEN ParseFail
       ELSE LET c == SkipWs(s, key.next) IN
            IF c > Len(s) \/ s[c] # ":" THEN ParseFail
            ELSE LET v == ParseValue(s, SkipWs(s, c + 1)) IN
                 IF ~v.ok THEN ParseFail
                 ELSE LET m == SkipWs(s, v.next)
                          acc2 == PutMember(acc, key.val[2], v.val) IN
                      IF m > Len(s) THEN ParseFail
                      ELSE IF s[m] = "}" THEN ParseOk(<<"obj", acc2>>, m + 1)
                      ELSE IF s[m] = "," THEN ParseMembers(s, SkipWs(s, m + 1), acc2)
                      ELSE ParseFail

ParseValue(s, i) ==
  IF i > Len(s) THEN ParseFail
  ELSE IF s[i] = "\"" THEN ParseString(s, i + 1, <<>>)
  ELSE IF s[i] = "{" THEN
         LET j == SkipWs(s, i + 1) IN
         IF j <= Len(s) /\ s[j] = "}" THEN ParseOk(<<"obj", <<>>>>, j + 1)
         ELSE ParseMembers(s, j, <<>>)
  ELSE IF s[i] = "[" THEN
         LET j == SkipWs(s, i + 1) IN
         IF j <= Len(s) /\ s[j] = "]" THEN ParseOk(<<"arr", <<>>>>, j + 1)
         ELSE ParseElements(s, j, <<>>)
  ELSE IF s[i] = "n" THEN
         IF i + 3 <= Len(s) /\ SubSeq(s, i, i + 3) = <<"n", "u", "l", "l">>
           THEN ParseOk(<<"null", <<>>>>, i + 4)
           ELSE ParseFail
  ELSE IF s[i] \in Digits THEN ParseNumber(s, i, 0)
  ELSE ParseFail

\* json.loads(s): [ok, val] on success, [ok = FALSE, err] when it raises
\* JSONDecodeError
JsonLoads(s) ==
  LET v == ParseValue(s, SkipWs(s, 1)) IN
  IF ~v.ok THEN [ok |-> FALSE, val |-> ParseFail.val, err |-> "Expecting value"]
  ELSE IF SkipWs(s, v.next) # Len(s) + 1
         THEN [ok |-> FALSE, val |-> ParseFail.val, err |-> "Extra data"]
  ELSE [ok |-> TRUE, val |-> v.val, err |-> ""]

\* lines 84-88 on a reply text
ParseReply(text) == JsonLoads(StripFence(text))

\* ------------------------------------------------------------------------
\* Texts of the model
\* ------------------------------------------------------------------------
JObjA == <<"{", "\"", "a", "\"", ":", "1", "}">>
JObjSp == <<"{", "\"", "a", "\"", ":", " ", "1", ",", "\"", "s", "\"", ":", "[", "1", ",", "2", "]", "}">>
JObjEmpty == <<"{", "}">>
JArr == <<"[", "1", "]">>
JArrEmpty == <<"[", "]">>
JNum == <<"1", "2">>
JStr == <<"\"", "a", "\"">>
JNull == <<"n", "u", "l", "l">>
\* the JSON texts a generator reply may carry
JsonTexts == {JObjA, JObjSp, JObjEmpty, JArr, JArrEmpty, JNum, JStr, JNull}

\* texts that are not JSON
TruncatedObj == <<"{", "\"", "a", "\"", ":", "1">>
Unavailable == <<"u", "n", "a", "v", "a", "i", "l", "a", "b", "l", "e">>

\* whitespace runs of at most n characters
RECURSIVE WsRuns(_)
WsRuns(n) ==
  IF n = 0 THEN {<<>>}
  ELSE WsRuns(n - 1) \cup {Append(w, c) : w \in WsRuns(n - 1), c \in PyWs}

\* J in a markdown JSON code fence, with whitespace before J, after J and
\* after the closing fence
Fenced(j, w1, w2, w3) == FenceLead \o w1 \o j \o w2 \o FenceTail \o w3

\* ------------------------------------------------------------------------
\* Exceptions and responses
\* ------------------------------------------------------------------------
NoValue == ParseFail.val
HTTPException(code, detail) ==
  [type |-> "HTTPException", status_code |-> code, detail |-> detail]
\* any exception that is not an HTTPException; detail is str(e)
OtherException(msg) ==
  [type |-> "Exception", status_code |-> 0, detail |-> <<msg>>]
NoException == [type |-> "none", status_code |-> 0, detail |-> <<>>]

\* what FastAPI sends for a raised HTTPException
ErrorResponse(code, detail) ==
  [code |-> code, detail |-> detail, status |-> "", message |-> "", data |-> NoValue]

\* line 44
SessionNotEstablished == <<"MCP session not established during startup.">>
\* line 170
NotSupportedDetail(intent) == <<"Intent '", intent, "' not supported.">>
\* line 58
ProviderErrorDetail(status, body) ==
  <<"MCP Server returned an error: ", status, ". Body: ">> \o body
\* line 190
InternalErrorDetail(msg) == <<"An internal error occurred: ">> \o msg

\* ------------------------------------------------------------------------
\* The environment: provider and generator answers
\* ------------------------------------------------------------------------
\* how one call of the startup handshake can end: a 2xx answer, a non-2xx
\* answer, or a transport error
HandshakeOutcomes == {"2xx", "non2xx", "neterr"}

HttpResponse(status, body) ==
  [kind |-> "http", status |-> status, body |-> body, cause |-> ""]
NetError(cause) ==
  [kind |-> "neterr", status |-> "", body |-> <<>>, cause |-> cause]
NoAnswer == [kind |-> "none", status |-> "", body |-> <<>>, cause |-> ""]
\* answers of POST /mcp/stream
ProviderResponses ==
  {HttpResponse("200", JObjA), HttpResponse("200", Unavailable),
   HttpResponse("503", Unavailable), NetError("ConnectTimeout")}

GenText(text) == [kind |-> "text", text |-> text, cause |-> ""]
GenError(cause) == [kind |-> "error", text |-> <<>>, cause |-> cause]
NoReply == [kind |-> "none", text |-> <<>>, cause |-> ""]
\* outcomes of generate_content_async followed by .text
GenOutcomes ==
  {GenText(t) : t \in {JObjA, JArr, TruncatedObj,
                       Fenced(JObjA, <<"\n">>, <<"\n">>, <<>>),
                       Fenced(JObjA, <<"\n">>, <<"\n">>, <<"\n">>)}}
    \cup {GenError("ResourceExhausted")}

\* ------------------------------------------------------------------------
\* Pieces of the handlers
\* ------------------------------------------------------------------------
\* client.get / client.post in startup_event (lines 148-152): they raise on
\* a transport error only, the status of the answer is not looked at
HandshakeRaises(outcome) == outcome = "neterr"

NoConfig == [tool_name |-> "", prompt_template |-> "", message |-> ""]
\* mutant of IntentConfigGet: an unknown intent falls back to fetch_net_worth
IntentConfigGetDefault(intent) ==
  IF intent \in DOMAIN INTENT_CONFIG
    THEN [found |-> TRUE, config |-> INTENT_CONFIG[intent]]
    ELSE [found |-> TRUE, config |-> INTENT_CONFIG["fetch_net_worth"]]

\* INTENT_CONFIG.get(request.intent), line 167
IntentConfigGet(intent) ==
  IF intent \in DOMAIN INTENT_CONFIG
    THEN [found |-> TRUE, config |-> INTENT_CONFIG[intent]]
    ELSE [found |-> FALSE, config |-> NoConfig]

\* mutant of SessionMissing: the check of line 43 is left out
SessionMissingNever(sid) == FALSE

\* "not GLOBAL_MCP_SESSION_ID", line 43
SessionMissing(sid) == sid = None \/ sid = ""

\* mutant of ToolRequest: the tool name is hard-coded instead of taken from
\* the intent's configuration
ToolRequestFixedTool(tool_name, sid) ==
  [kind |-> "tool", url |-> "/mcp/stream", tool_name |-> "fetch_net_worth",
   session |-> sid, prompt_template |-> ""]

\* the POST of lines 46-54
ToolRequest(tool_name, sid) ==
  [kind |-> "tool", url |-> "/mcp/stream", tool_name |-> tool_name,
   session |-> sid, prompt_template |-> ""]
\* the generate_content_async call of lines 74-81
GenRequest(prompt_template) ==
  [kind |-> "gen", url |-> "gemini-1.5-flash-latest", tool_name |-> "",
   session |-> "", prompt_template |-> prompt_template]

Raised(exc) == [raised |-> TRUE, exc |-> exc, data |-> NoValue]
Returned(v) == [raised |-> FALSE, exc |-> NoException, data |-> v]

\* response.raise_for_status(), line 55
IsSuccessStatus(status) == status = "200"

\* lines 55-63: what call_mcp_tool does with the provider's answer
McpToolResult(resp) ==
  IF resp.kind = "neterr"
    THEN Raised(HTTPException(500, <<resp.cause>>))
  ELSE IF ~IsSuccessStatus(resp.status)
    THEN Raised(HTTPException(500, ProviderErrorDetail(resp.status, resp.body)))
  ELSE LET j == JsonLoads(resp.body) IN
       IF j.ok THEN Returned(j.val)
       ELSE Raised(HTTPException(500, <<j.err>>))

\* lines 78-88: what get_financial_insight does with the generator's outcome
InsightResult(gen) ==
  IF gen.kind = "error" THEN Raised(OtherException(gen.cause))
  ELSE LET j == ParseReply(gen.text) IN
       IF j.ok THEN Returned(j.val) ELSE Raised(OtherException(j.err))

\* mutant of IsDict: the response model takes any JSON value as data
IsDictAny(v) == TRUE

\* validation of the field "data: dict" of FinancialInsightResponse, line 34
IsDict(v) == v[1] = "obj"

\* lines 179-183
BuildResponse(config, insight_data) ==
  IF IsDict(insight_data)
    THEN Returned([code |-> 200, detail |-> <<>>, status |-> "success",
                   message |-> config.message, data |-> insight_data])
    ELSE Raised(OtherException("ValidationError"))

\* mutant of InternalError: the unexpected error is reported as a client error
InternalErrorAsClientError(exc) ==
  ErrorResponse(400, InternalErrorDetail(exc.detail))

\* line 190
InternalError(exc) == ErrorResponse(500, InternalErrorDetail(exc.detail))

\* mutant of HandleException: the generic except clause comes first, so an
\* HTTPException of call_mcp_tool is wrapped too
HandleExceptionWrapsAll(exc) == InternalError(exc)

\* the except clauses of process_agent_request, lines 184-190
HandleException(exc) ==
  IF exc.type = "HTTPException"
    THEN ErrorResponse(exc.status_code, exc.detail)
    ELSE InternalError(exc)

\* ------------------------------------------------------------------------
\* State
\* ------------------------------------------------------------------------
VARIABLES
  backendSid,   \* BACKEND_MCP_SESSION_ID
  session,      \* GLOBAL_MCP_SESSION_ID
  startPc,      \* position of startup_event: "register", "login", "done"
  startFailed,  \* startup_event took its except branch
  hsLog,        \* calls startup_event has made, with how each ended
  reqPc,        \* position of each request: "idle", "tool", "gen", "done"
  reqIntent,    \* request.intent
  seen,         \* the value of GLOBAL_MCP_SESSION_ID the request read
  calls,        \* outbound calls the request has issued, in order
  toolResp,     \* the provider's answer to the request's tool call
  mcpData,      \* mcp_data in get_financial_insight
  genOut,       \* the generator's outcome for the request
  responses,    \* HTTP responses sent for the request
  fenceIn,      \* reply text under fence stripping (SpecFence)
  fenceOut      \* its stripped text and parse (SpecFence)

vars == <<backendSid, session, startPc, startFailed, hsLog, reqPc, reqIntent,
          seen, calls, toolResp, mcpData, genOut, responses, fenceIn, fenceOut>>
startVars == <<backendSid, session, startPc, startFailed, hsLog>>
reqVars == <<reqPc, reqIntent, seen, calls, toolResp, mcpData, genOut, responses>>
fenceVars == <<fenceIn, fenceOut>>

NotRead == "NotRead"
NoFenceIn == [shape |-> "none", j |-> <<>>, text |-> <<>>]
NoFenceOut == [run |-> FALSE, stripped |-> <<>>, parsed |-> JsonLoads(<<>>)]

InitService ==
  /\ backendSid \in SessionIds
  /\ session = None
  /\ startPc = "register"
  /\ startFailed = FALSE
  /\ hsLog = <<>>
  /\ reqPc = [r \in Reqs |-> "idle"]
  /\ reqIntent = [r \in Reqs |-> ""]
  /\ seen = [r \in Reqs |-> NotRead]
  /\ calls = [r \in Reqs |-> <<>>]
  /\ toolResp = [r \in Reqs |-> NoAnswer]
  /\ mcpData = [r \in Reqs |-> NoValue]
  /\ genOut = [r \in Reqs |-> NoReply]
  /\ responses = [r \in Reqs |-> <<>>]

Init == InitService /\ fenceIn = NoFenceIn /\ fenceOut = NoFenceOut

\* ------------------------------------------------------------------------
\* startup_event, lines 141-158
\* ------------------------------------------------------------------------
HandshakeCall(name, outcome) ==
  [call |-> name, sessionId |-> backendSid, outcome |-> outcome]

\* line 148: GET /mockWebPage; a raise goes to the except of line 155
StartupRegister(outcome) ==
  /\ startPc = "register"
  /\ hsLog' = Append(hsLog, HandshakeCall("mockWebPage", outcome))
  /\ IF HandshakeRaises(outcome)
       THEN startPc' = "done" /\ startFailed' = TRUE
       ELSE startPc' = "login" /\ startFailed' = FALSE
  /\ UNCHANGED <<backendSid, session>>
  /\ UNCHANGED reqVars
  /\ UNCHANGED fenceVars

\* mutant of StartupLogin: the global is given a newly generated identifier
\* instead of the one the handshake registered
StartupLoginRegenerates(outcome) ==
  /\ startPc = "login"
  /\ hsLog' = Append(hsLog, HandshakeCall("login", outcome))
  /\ startPc' = "done"
  /\ IF HandshakeRaises(outcome)
       THEN startFailed' = TRUE /\ session' = session
       ELSE startFailed' = FALSE /\ session' \in SessionIds \ {backendSid}
  /\ UNCHANGED backendSid
  /\ UNCHANGED reqVars
  /\ UNCHANGED fenceVars

\* lines 149-153: POST /login, then the assignment of the global
StartupLogin(outcome) ==
  /\ startPc = "login"
  /\ hsLog' = Append(hsLog, HandshakeCall("login", outcome))
  /\ startPc' = "done"
  /\ IF HandshakeRaises(outcome)
       THEN startFailed' = TRUE /\ session' = session
       ELSE startFailed' = FALSE /\ session' = backendSid
  /\ UNCHANGED backendSid
  /\ UNCHANGED reqVars
  /\ UNCHANGED fenceVars

\* mutant of ServingStarted: requests are taken while startup_event runs
ServingBeforeStartup == TRUE

\* requests are served once the startup handler has returned (line 141)
ServingStarted == startPc = "done"

\* ------------------------------------------------------------------------
\* process_agent_request, lines 160-190
\* ------------------------------------------------------------------------
Finish(r, resp) ==
  /\ responses' = [responses EXCEPT ![r] = Append(@, resp)]
  /\ reqPc' = [reqPc EXCEPT ![r] = "done"]

\* lines 167-177 and 43-54: from the arrival of the request to the first await
Receive(r, intent) ==
  /\ ServingStarted
  /\ reqPc[r] = "idle"
  /\ reqIntent' = [reqIntent EXCEPT ![r] = intent]
  /\ LET cfg == IntentConfigGet(intent) IN
     IF ~cfg.found
       THEN /\ Finish(r, ErrorResponse(400, NotSupportedDetail(intent)))
            /\ UNCHANGED <<seen, calls>>
     ELSE IF SessionMissing(session)
       THEN /\ seen' = [seen EXCEPT ![r] = session]
            /\ Finish(r, HandleException(HTTPException(500, SessionNotEstablished)))
            /\ UNCHANGED calls
     ELSE /\ seen' = [seen EXCEPT ![r] = session]
          /\ calls' = [calls EXCEPT ![r] =
                         Append(@, ToolRequest(cfg.config.tool_name, session))]
          /\ reqPc' = [reqPc EXCEPT ![r] = "tool"]
          /\ UNCHANGED responses
  /\ UNCHANGED <<toolResp, mcpData, genOut>>
  /\ UNCHANGED startVars
  /\ UNCHANGED fenceVars

\* lines 55-63 and 71-81: the provider answers; on a payload the prompt is
\* rendered and the generator is called
ToolReturn(r, resp) ==
  /\ reqPc[r] = "tool"
  /\ toolResp' = [toolResp EXCEPT ![r] = resp]
  /\ LET res == McpToolResult(resp)
         cfg == IntentConfigGet(reqIntent[r]).config IN
     IF res.raised
       THEN /\ Finish(r, HandleException(res.exc))
            /\ UNCHANGED <<mcpData, calls>>
       ELSE /\ mcpData' = [mcpData EXCEPT ![r] = res.data]
            /\ calls' = [calls EXCEPT ![r] =
                           Append(@, GenRequest(cfg.prompt_template))]
            /\ reqPc' = [reqPc EXCEPT ![r] = "gen"]
            /\ UNCHANGED responses
  /\ UNCHANGED <<reqIntent, seen, genOut>>
  /\ UNCHANGED startVars
  /\ UNCHANGED fenceVars

\* lines 82-88 and 179-190: the generator answers
GenReturn(r, gen) ==
  /\ reqPc[r] = "gen"
  /\ genOut' = [genOut EXCEPT ![r] = gen]
  /\ LET cfg == IntentConfigGet(reqIntent[r]).config
         ins == InsightResult(gen)
         built == IF ins.raised THEN ins ELSE BuildResponse(cfg, ins.data) IN
     IF built.raised
       THEN Finish(r, HandleException(built.exc))
       ELSE Finish(r, built.data)
  /\ UNCHANGED <<reqIntent, seen, calls, toolResp, mcpData>>
  /\ UNCHANGED startVars
  /\ UNCHANGED fenceVars

Next ==
  \/ \E o \in HandshakeOutcomes : StartupRegister(o)
  \/ \E o \in HandshakeOutcomes : StartupLogin(o)
  \/ \E r \in Reqs, i \in Intents : Receive(r, i)
  \/ \E r \in Reqs, resp \in ProviderResponses : ToolReturn(r, resp)
  \/ \E r \in Reqs, g \in GenOutcomes : GenReturn(r, g)

Spec == Init /\ [][Next]_vars

\* ------------------------------------------------------------------------
\* Fence stripping on its own: lines 84-88 applied to one reply text
\* ------------------------------------------------------------------------
FenceInput(shape, j, text) == [shape |-> shape, j |-> j, text |-> text]
FenceInputs ==
  {FenceInput("bare", j, j) : j \in JsonTexts}
    \cup {FenceInput("fenced", j, Fenced(j, w[1], w[2], w[3])) :
            j \in JsonTexts, w \in WsRuns(MaxWs) \X WsRuns(MaxWs) \X WsRuns(MaxWs)}
    \cup {FenceInput("lead_only", j, FenceLead \o w \o j) :
            j \in JsonTexts, w \in WsRuns(MaxWs)}
    \cup {FenceInput("tail_only", j, j \o w \o FenceTail) :
            j \in JsonTexts, w \in WsRuns(MaxWs)}

InitFence == InitService /\ fenceIn \in FenceInputs /\ fenceOut = NoFenceOut

FenceParse ==
  /\ ~fenceOut.run
  /\ fenceOut' = [run |-> TRUE, stripped |-> StripFence(fenceIn.text),
                  parsed |-> ParseReply(fenceIn.text)]
  /\ UNCHANGED fenceIn
  /\ UNCHANGED startVars
  /\ UNCHANGED reqVars

NextFence == FenceParse

SpecFence == InitFence /\ [][NextFence]_vars

\* ------------------------------------------------------------------------
\* Properties
\* ------------------------------------------------------------------------
Done(r) == reqPc[r] = "done"
Resp(r) == responses[r][1]
Established == session # None
Supported(r) == reqIntent[r] \in SupportedIntents
CallsOfKind(r, kind) == SelectSeq(calls[r], LAMBDA c : c.kind = kind)
\* t occurs in s as a run of consecutive characters
Contains(s, t) ==
  \E i \in 0 .. (Len(s) - Len(t)) : SubSeq(s, i + 1, i + Len(t)) = t

\* the provider answered the tool call with a 2xx status and a JSON body
ToolSucceeded(r) ==
  /\ toolResp[r].kind = "http"
  /\ toolResp[r].status = "200"
  /\ JsonLoads(toolResp[r].body).ok
ToolFailed(r) == toolResp[r].kind # "none" /\ ~ToolSucceeded(r)
\* the generator's reply, as the code parses it, is JSON
ReplyParsed(r) == genOut[r].kind = "text" /\ ParseReply(genOut[r].text).ok
ReplyValue(r) == ParseReply(genOut[r].text).val

\* C1: the provider session is written at most once. In every state it is
\* unset or equal to the identifier generated at process start; the only
\* change of the session ever made is unset -> that identifier, made by the
\* login step of the startup handshake; no tool invocation, request or failed
\* request changes it, and the generated identifier itself never changes.
C1_SessionWrittenOnce ==
  /\ [](session \in {None, backendSid})
  /\ [][session' # session =>
          /\ session = None
          /\ session' = backendSid
          /\ startPc = "login" /\ startPc' = "done"
          /\ reqPc' = reqPc /\ responses' = responses]_vars
  /\ [][backendSid' = backendSid]_vars

\* C1 witness: the session is established and, after that, one request has
\* failed and another has succeeded
C1_Witness ==
  /\ session = backendSid
  /\ \E r1, r2 \in Reqs :
       /\ Done(r1) /\ Resp(r1).code = 500
       /\ Done(r2) /\ Resp(r2).code = 200

\* C2: the session is stored only when both handshake steps succeed: once
\* startup has finished, if the registration call or the login call ended in
\* a transport error or a non-2xx answer the session is unset, startup still
\* finishes and requests are served, and the login call is never issued
\* before the registration call.
C2_SessionOnlyWhenBothStepsSucceed ==
  /\ (startPc = "done" /\ \E k \in DOMAIN hsLog : hsLog[k].outcome # "2xx")
        => session = None
  /\ \A k \in DOMAIN hsLog :
        hsLog[k].call = "login" => k = 2 /\ hsLog[1].call = "mockWebPage"
  /\ (\E k \in DOMAIN hsLog : hsLog[k].outcome = "neterr")
        => startPc = "done" /\ ServingStarted

\* C3: while the session is unset a tool invocation fails with "MCP session
\* not established during startup." without any call to the provider; after
\* a startup that failed, every request with a supported intent ends in HTTP
\* 500 with that text, with no provider call and no generator call.
C3_UnsetSessionFailsWithoutCall ==
  \A r \in Reqs :
    /\ seen[r] = None =>
         /\ Done(r)
         /\ calls[r] = <<>>
         /\ Resp(r) = ErrorResponse(500, SessionNotEstablished)
    /\ ((startFailed \/ ~Established) /\ Done(r) /\ Supported(r)) =>
         /\ seen[r] = None
         /\ calls[r] = <<>>
         /\ Resp(r).code = 500
         /\ Resp(r).detail = SessionNotEstablished

\* C3 witness: startup failed and every request of the run, each with a
\* supported intent, has been answered
C3_Witness ==
  /\ startFailed
  /\ \A r \in Reqs : Done(r) /\ Supported(r) /\ seen[r] = None

\* C4: a request whose intent is not a key of the intent table ends in HTTP
\* 400 with the detail "Intent '<intent>' not supported.", has issued no
\* provider call and no generator call and has not read the session; only
\* requests with a supported intent ever get past the lookup.
C4_UnknownIntentRejected ==
  \A r \in Reqs :
    /\ (Done(r) /\ ~Supported(r)) =>
         /\ Resp(r) = ErrorResponse(400, NotSupportedDetail(reqIntent[r]))
         /\ calls[r] = <<>>
         /\ seen[r] = NotRead
    /\ reqPc[r] \in {"tool", "gen"} => Supported(r)

\* C4 witness: with the session established, a request naming a tool that
\* is not an intent has been answered
C4_Witness ==
  /\ Established
  /\ \E r \in Reqs : Done(r) /\ reqIntent[r] = "fetch_bank_transactions"

\* C5: for a supported intent with the session established, the calls a
\* request issues are a prefix of <<tool call, generator call>>: first one
\* tool call carrying the intent's configured tool name and the established
\* session, then, only once the tool call has returned its payload, one
\* generator call with the intent's prompt; a request whose tool call
\* returned a payload has issued exactly these two calls, and no call is
\* repeated.
C5_OneToolCallThenOneGeneratorCall ==
  \A r \in Reqs :
    (Supported(r) /\ reqPc[r] # "idle" /\ seen[r] # None) =>
      LET cfg == INTENT_CONFIG[reqIntent[r]]
          tool == [kind |-> "tool", url |-> "/mcp/stream",
                   tool_name |-> cfg.tool_name, session |-> backendSid,
                   prompt_template |-> ""]
          gen == [kind |-> "gen", url |-> "gemini-1.5-flash-latest",
                  tool_name |-> "", session |-> "",
                  prompt_template |-> cfg.prompt_template] IN
      /\ session = backendSid
      /\ calls[r] \in {<<tool>>, <<tool, gen>>}
      /\ calls[r] = <<tool, gen>> <=> (ToolSucceeded(r) /\ mcpData[r] # NoValue)
      /\ reqPc[r] = "tool" => calls[r] = <<tool>>
      /\ reqPc[r] = "gen" => calls[r] = <<tool, gen>>

\* C5 witness: a finished analyze_spending request (tool name different from
\* the intent name) that issued both calls
C5_Witness ==
  \E r \in Reqs :
    /\ Done(r) /\ reqIntent[r] = "analyze_spending"
    /\ Len(calls[r]) = 2 /\ Resp(r).code = 200

\* C6: when the provider's answer to the tool call is a failure, the request
\* ends in HTTP 500 whose detail is the text call_mcp_tool built, not wrapped
\* by the handler: for a non-2xx answer "MCP Server returned an error:
\* <status>. Body: <body>", for a transport failure the text of the cause;
\* the generator was not called and exactly one provider call was made.
C6_ToolFailurePropagatedUnchanged ==
  \A r \in Reqs :
    (Done(r) /\ ToolFailed(r)) =>
      /\ Resp(r).code = 500
      /\ Resp(r).detail[1] # "An internal error occurred: "
      /\ (toolResp[r].kind = "http" /\ toolResp[r].status # "200") =>
           /\ Resp(r).detail =
                ProviderErrorDetail(toolResp[r].status, toolResp[r].body)
           /\ \E i \in DOMAIN Resp(r).detail : Resp(r).detail[i] = toolResp[r].status
           /\ Contains(Resp(r).detail, toolResp[r].body)
      /\ toolResp[r].kind = "neterr" => Resp(r).detail = <<toolResp[r].cause>>
      /\ Len(CallsOfKind(r, "gen")) = 0
      /\ Len(CallsOfKind(r, "tool")) = 1
      /\ genOut[r] = NoReply

\* C6 witness: a request answered after the provider returned 503 with the
\* body "unavailable"
C6_Witness ==
  \E r \in Reqs : Done(r) /\ toolResp[r] = HttpResponse("503", Unavailable)

\* C7: fence stripping removes only fence markers. A reply that is a JSON
\* text J inside a code fence, with optional whitespace around J and after
\* the closing fence, parses to the same result as J alone; a reply without
\* a fence is parsed as it is; a reply without both a leading marker and a
\* closing fence keeps all of J's characters in the text that is parsed.
C7_FenceStrippingRemovesOnlyMarkers ==
  fenceOut.run =>
    /\ fenceIn.shape = "fenced" => fenceOut.parsed = JsonLoads(fenceIn.j)
    /\ fenceIn.shape = "bare" =>
         /\ fenceOut.stripped = fenceIn.text
         /\ fenceOut.parsed = JsonLoads(fenceIn.text)
    /\ fenceIn.shape \in {"bare", "lead_only", "tail_only"} =>
         Contains(fenceOut.stripped, fenceIn.j)

\* C8: a request is answered with HTTP 200 if and only if its intent is
\* supported, the tool call succeeded and the generator's reply parsed to a
\* JSON object; then status is "success", message is the message configured
\* for the requested intent and data is the parsed object. A reply that
\* parses to JSON that is not an object never gives a 200.
C8_SuccessIffObjectReply ==
  \A r \in Reqs :
    Done(r) =>
      LET good == /\ Supported(r)
                  /\ ToolSucceeded(r)
                  /\ ReplyParsed(r)
                  /\ ReplyValue(r)[1] = "obj" IN
      /\ Resp(r).code = 200 <=> good
      /\ Resp(r).code = 200 =>
           /\ Resp(r).status = "success"
           /\ Resp(r).message = INTENT_CONFIG[reqIntent[r]].message
           /\ Resp(r).data = ReplyValue(r)
           /\ Resp(r).detail = <<>>
      /\ (ReplyParsed(r) /\ ReplyValue(r)[1] # "obj") => Resp(r).code # 200

\* C8 witness: one request answered 200 for fetch_net_worth and another
\* whose reply parsed to a JSON array
C8_Witness ==
  \E r1, r2 \in Reqs :
    /\ Done(r1) /\ reqIntent[r1] = "fetch_net_worth" /\ Resp(r1).code = 200
    /\ Done(r2) /\ ReplyParsed(r2) /\ ReplyValue(r2)[1] = "arr"

\* C9: a request sends at most one response, and a finished request exactly
\* one, with code 200, 400 or 500; the code is 400 if and only if the intent
\* is unknown; an unset session, a failed tool call, a failed generator call
\* and a reply that is not JSON after fence stripping each give 500 with a
\* non-empty error text; after a reply that is not JSON exactly one generator
\* call was made.
C9_EveryFailureIsAStructuredError ==
  \A r \in Reqs :
    /\ Len(responses[r]) <= 1
    /\ Done(r) <=> Len(responses[r]) = 1
    /\ Done(r) =>
         /\ Resp(r).code \in {200, 400, 500}
         /\ Resp(r).code = 400 <=> ~Supported(r)
         /\ (Supported(r) /\ seen[r] = None) =>
              Resp(r).code = 500 /\ Resp(r).detail # <<>>
         /\ ToolFailed(r) => Resp(r).code = 500 /\ Resp(r).detail # <<>>
         /\ genOut[r].kind = "error" =>
              /\ Resp(r).code = 500
              /\ Resp(r).detail = InternalErrorDetail(<<genOut[r].cause>>)
         /\ (genOut[r].kind = "text" /\ ~ReplyParsed(r)) =>
              /\ Resp(r).code = 500
              /\ Resp(r).detail =
                   InternalErrorDetail(<<ParseReply(genOut[r].text).err>>)
              /\ Len(CallsOfKind(r, "gen")) = 1
         /\ Resp(r).code # 200 => Resp(r).detail # <<>>

\* C9 witness: a request answered after the generator returned a truncated
\* object, and another after the generator call itself failed
C9_Witness ==
  \E r1, r2 \in Reqs :
    /\ Done(r1) /\ genOut[r1] = GenText(TruncatedObj)
    /\ Done(r2) /\ genOut[r2].kind = "error"

\* the response code a request's own inputs call for
ExpectedCode(r) ==
  IF ~Supported(r) THEN 400
  ELSE IF seen[r] = None THEN 500
  ELSE IF ~ToolSucceeded(r) THEN 500
  ELSE IF ~ReplyParsed(r) THEN 500
  ELSE IF ReplyValue(r)[1] # "obj" THEN 500
  ELSE 200

\* C10: under any interleaving of requests, a request reads the session only
\* after startup has finished and the value it read is the value the session
\* has from then on; every tool call carries that same identifier; no step
\* taken after startup changes the session; a finished request's response is
\* never changed by a later step; and a request's response code depends only
\* on its own intent, provider answer and generator reply.
C10_RequestsShareOneFixedSession ==
  /\ [](\A r \in Reqs :
          /\ seen[r] # NotRead => startPc = "done" /\ seen[r] = session
          /\ reqPc[r] # "idle" => startPc = "done"
          /\ \A k \in DOMAIN calls[r] :
               calls[r][k].kind = "tool" => calls[r][k].session = session
          /\ Done(r) => Resp(r).code = ExpectedCode(r))
  /\ [][startPc = "done" => session' = session]_vars
  /\ [][\A r \in Reqs : Done(r) => responses'[r] = responses[r] /\ Done(r)']_vars

\* C10 witness: one request waits for the generator while another has
\* already failed at its tool call; both tool calls carried the same session
C10_Witness ==
  \E r1, r2 \in Reqs :
    /\ r1 # r2
    /\ reqPc[r1] = "gen"
    /\ Done(r2) /\ ToolFailed(r2)
    /\ calls[r1][1].session = calls[r2][1].session
    /\ calls[r1][1].session = session

====
